---- MODULE Spec2Model ----
(***************************************************************************)
(* Model of src/bot.py: the per-user session store of the invoice bot and  *)
(* its update handlers (cmd_start, cmd_clear, handle_photo, cmd_done,      *)
(* handle_callback, cmd_order, cmd_tickets).                               *)
(*                                                                         *)
(* A handler is a coroutine.  Each action below is one synchronous segment *)
(* of a handler: the code between two awaits.  A running handler is a      *)
(* record of `tasks`; its `pc` names the await it is suspended at.  The    *)
(* application is built without concurrent_updates (src/bot.py:417), so    *)
(* the dispatcher awaits each handler before it takes the next update.     *)
(***************************************************************************)
EXTENDS Integers, Sequences, FiniteSets, TLC

\* ------------------------------------------------------------------ bounds
\* Images the session store holds at most, all sessions together.
MaxImages == 2
\* Shipments the session store holds at most, all sessions together: the
\* engine answers with no more elements than fit.
MaxDrafts == 2
\* Handlers in flight at once, were the dispatcher concurrent.
MaxTasks == 2

Users == {1, 2}
\* Raw photo bytes the transport delivers.
Payloads == {1, 2}

\* ------------------------------------------------------------ configuration
\* Values of the ALLOWED_USERS environment variable: "" and "1".
AllowLists == {{}, {1}}

ConcurrentUpdatesOn == TRUE
\* Application.builder().token(..).build(): concurrent_updates is not set.
ConcurrentUpdates == FALSE

\* ------------------------------------------------------------------- state
VARIABLES
    allowed,    \* the parsed ALLOWED_USERS list
    sessions,   \* the sessions dict: user id -> session
    tasks       \* the handler coroutines in flight

vars == <<allowed, sessions, tasks>>

NewSession == [images |-> <<>>, phase |-> "collecting", shipments |-> <<>>]

\* What get_session(u) would return on the store s.
View(s, u) == IF u \in DOMAIN s THEN s[u] ELSE NewSession

Put_shared(s, u, v) == [w \in DOMAIN s \cup {u} |-> v]
Put(s, u, v) == [w \in DOMAIN s \cup {u} |-> IF w = u THEN v ELSE s[w]]

get_session(s, u) == IF u \in DOMAIN s THEN s ELSE Put(s, u, NewSession)

clear_session_keep_phase(s, u) == Put(s, u, [NewSession EXCEPT !.phase = View(s, u).phase])
clear_session(s, u) == Put(s, u, NewSession)

is_allowed(u) == IF allowed = {} THEN TRUE ELSE u \in allowed

\* base64.b64encode(bytes).decode() of the one-byte payloads.
Base64(b) == CASE b = 1 -> "AQ==" [] b = 2 -> "Ag==" [] OTHER -> "AA=="

\* ------------------------------------------------------------------- tasks
NoRef == [attached |-> FALSE, obj |-> NewSession]
Attached == [attached |-> TRUE, obj |-> NewSession]

\* A handler coroutine: its update (img, act and idx, args), its locals (ref
\* is `session`, drafts is cmd_done's `shipments`), the await it is suspended
\* at, the reply it sent last, the tickets it sent, and the session as the
\* update found it (pre).
Task(u, kind, pc, signal) ==
    [user |-> u, kind |-> kind, pc |-> pc, signal |-> signal,
     ref |-> NoRef, pre |-> View(sessions, u),
     img |-> 0, act |-> "", idx |-> 0, args |-> <<>>, drafts |-> <<>>,
     tickets |-> <<>>]

\* The session object a handler's local `session` refers to.
Deref(s, t) == IF t.ref.attached THEN s[t.user] ELSE t.ref.obj

\* clear_session rebinds sessions[u]: a suspended handler of u that holds the
\* old object keeps it, detached from the store.
Detach(t, u) ==
    IF t.user = u /\ t.ref.attached
    THEN [t EXCEPT !.ref = [attached |-> FALSE, obj |-> sessions[u]]]
    ELSE t

\* The dispatcher takes the next update.
CanDispatch ==
    \/ tasks = {}
    \/ ConcurrentUpdates /\ Cardinality(tasks) < MaxTasks

Spawn(t) == tasks' = tasks \cup {t}
Resume(t, t2) == tasks' = (tasks \ {t}) \cup {t2}

RECURSIVE StoredImages(_)
\* The images held by the store s.
StoredImages(s) ==
    IF DOMAIN s = {} THEN 0
    ELSE LET u == CHOOSE w \in DOMAIN s : TRUE IN
         Len(s[u].images) + StoredImages([w \in DOMAIN s \ {u} |-> s[w]])

RECURSIVE StoredShipments(_)
\* The shipments held by the store s.
StoredShipments(s) ==
    IF DOMAIN s = {} THEN 0
    ELSE LET u == CHOOSE w \in DOMAIN s : TRUE IN
         Len(s[u].shipments) + StoredShipments([w \in DOMAIN s \ {u} |-> s[w]])

Init ==
    /\ allowed \in AllowLists
    /\ sessions = <<>>
    /\ tasks = {}

\* ---------------------------------------------------------------- handlers
cmd_start(u) ==
    /\ CanDispatch
    /\ IF ~is_allowed(u)
       THEN /\ Spawn(Task(u, "start", "return", "AccessDenied"))
            /\ UNCHANGED sessions
       ELSE /\ sessions' = clear_session(sessions, u)
            /\ tasks' = {Detach(t, u) : t \in tasks}
                            \cup {Task(u, "start", "return", "Welcome")}
    /\ UNCHANGED allowed

cmd_help(u) ==
    /\ CanDispatch
    /\ Spawn(Task(u, "help", "return", "Help"))
    /\ UNCHANGED <<allowed, sessions>>

cmd_clear(u) ==
    /\ CanDispatch
    /\ sessions' = clear_session(sessions, u)
    /\ tasks' = {Detach(t, u) : t \in tasks}
                    \cup {Task(u, "clear", "return", "Cleared")}
    /\ UNCHANGED allowed


\* A write through a handler's `session` reference: to the stored object, or
\* to the detached one.
StoreAfter(t, v) == IF t.ref.attached THEN [sessions EXCEPT ![t.user] = v] ELSE sessions
RefAfter(t, v) == IF t.ref.attached THEN t.ref ELSE [t.ref EXCEPT !.obj = v]

\* handle_photo, lines 202-205: a photo outside collecting starts over.
reset_keep_images(s) == [s EXCEPT !.phase = "collecting", !.shipments = <<>>]
reset_for_photo(s) ==
    IF s.phase # "collecting"
    THEN [s EXCEPT !.phase = "collecting", !.images = <<>>, !.shipments = <<>>]
    ELSE s

\* handle_photo, line 216.
append_front(images, b64) == <<b64>> \o images
append_image(images, b64) == Append(images, b64)

\* handle_photo up to `await context.bot.get_file`.
handle_photo(u, img) ==
    /\ CanDispatch
    /\ IF ~is_allowed(u)
       THEN /\ Spawn([Task(u, "photo", "return", "None") EXCEPT !.img = img])
            /\ UNCHANGED sessions
       ELSE LET s == View(sessions, u) IN
            /\ StoredImages(Put(sessions, u, reset_for_photo(s))) < MaxImages
            /\ sessions' = Put(sessions, u, reset_for_photo(s))
            /\ Spawn([Task(u, "photo", "get_file", "None")
                          EXCEPT !.img = img, !.ref = Attached])
    /\ UNCHANGED allowed

\* `await context.bot.get_file(..)` returns or raises.
PhotoGetFile(t) ==
    /\ t.kind = "photo" /\ t.pc = "get_file"
    /\ \E ok \in BOOLEAN :
         Resume(t, IF ok THEN [t EXCEPT !.pc = "download"]
                         ELSE [t EXCEPT !.pc = "return", !.signal = "Exception"])
    /\ UNCHANGED <<allowed, sessions>>

\* `await file.download_to_memory(bio)` returns or raises; lines 213-219.
PhotoDownload(t) ==
    /\ t.kind = "photo" /\ t.pc = "download"
    /\ \E ok \in BOOLEAN :
         IF ok
         THEN LET s == Deref(sessions, t)
                  v == [s EXCEPT !.images = append_image(s.images, Base64(t.img))]
              IN /\ sessions' = StoreAfter(t, v)
                 /\ Resume(t, [t EXCEPT !.pc = "return", !.signal = "PhotoAck",
                                        !.ref = RefAfter(t, v)])
         ELSE /\ Resume(t, [t EXCEPT !.pc = "return", !.signal = "Exception"])
              /\ UNCHANGED sessions
    /\ UNCHANGED allowed


\* ------------------------------------------------------ extraction adapter
\* A JSON value of the engine's answer: an object (a draft), a string, or a
\* list of those.  `pages` is what the engine saw: the images of the request.
JObject(i, images) ==
    [type |-> "object", shipmentIndex |-> i, pages |-> images, items |-> <<>>]
JString == [type |-> "string", shipmentIndex |-> 0, pages |-> <<>>, items |-> <<>>]
JList(items) == [type |-> "list", shipmentIndex |-> 0, pages |-> <<>>, items |-> items]

\* The answers tried: a lone draft, a lone string, and the lists of at most
\* MaxDrafts elements that are drafts throughout or drafts up to a last
\* element that is a string.
JValues(images) ==
    {JObject(1, images), JString}
        \cup { JList([i \in 1..n |-> JObject(i, images)]) : n \in 0..MaxDrafts }
        \cup { JList([i \in 1..n |-> IF i < n THEN JObject(i, images) ELSE JString]) :
                 n \in 1..MaxDrafts }

\* What may precede and follow the JSON text: nothing, a markdown fence
\* (three backticks, with or without the word json), or prose.
FenceJson == "[fence]json"
Fence == "[fence]"
Prose == "Here is the JSON:"
\* <<prefix, suffix>> of the answers tried.
Wrappings == {<<"", "">>, <<FenceJson, Fence>>, <<Fence, Fence>>, <<Fence, "">>, <<Prose, "">>}

\* What client.messages.create does: it raises, or answers with a text.
EngineReplies(images) ==
    { [raised |-> TRUE, prefix |-> "", suffix |-> "", valid |-> FALSE, value |-> JString] }
    \cup { [raised |-> FALSE, prefix |-> w[1], suffix |-> w[2], valid |-> FALSE,
             value |-> JString] : w \in Wrappings }
    \cup { [raised |-> FALSE, prefix |-> w[1], suffix |-> w[2], valid |-> TRUE,
             value |-> v] : w \in Wrappings, v \in JValues(images) }

\* Line 153: the three removeprefix / removesuffix calls.
removeprefix(text, p) == IF text.prefix = p THEN [text EXCEPT !.prefix = ""] ELSE text
removesuffix(text, x) == IF text.suffix = x THEN [text EXCEPT !.suffix = ""] ELSE text
strip_fences(text) ==
    removesuffix(removeprefix(removeprefix(text, FenceJson), Fence), Fence)

\* json.loads: the text parses when nothing but a valid JSON value is left.
json_loads_ok(text) == text.prefix = "" /\ text.suffix = "" /\ text.valid

normalize_list_only(parsed) == parsed.items
\* Line 155.
normalize(parsed) == IF parsed.type = "list" THEN parsed.items ELSE <<parsed>>

\* process_invoices: [ok, drafts]; ~ok when the call or json.loads raised.
process_invoices(images, reply) ==
    LET text == strip_fences(reply) IN
    IF reply.raised \/ ~json_loads_ok(text)
    THEN [ok |-> FALSE, drafts |-> <<>>]
    ELSE [ok |-> TRUE, drafts |-> normalize(text.value)]

\* ----------------------------------------------------------------- cmd_done
\* Lines 243-244 on one element: only an object takes the two keys.
Shipment(d) ==
    [shipmentIndex |-> d.shipmentIndex, pages |-> d.pages,
     orderNumber |-> "", paymentApproved |-> TRUE]

RECURSIVE GoodPrefix(_)
\* The elements before the first one that is no object.
GoodPrefix(drafts) ==
    IF drafts = <<>> \/ Head(drafts).type # "object"
    THEN <<>>
    ELSE <<Head(drafts)>> \o GoodPrefix(Tail(drafts))

\* Lines 240-247: [ok, session]; ~ok when an element raised in the loop.
commit(s, drafts) ==
    LET good == GoodPrefix(drafts)
        built == [i \in 1..Len(good) |-> Shipment(good[i])]
    IN IF Len(good) = Len(drafts)
       THEN [ok |-> TRUE, session |-> [s EXCEPT !.shipments = built, !.phase = "review"]]
       ELSE [ok |-> FALSE, session |-> [s EXCEPT !.shipments = built]]

has_images_always(s) == TRUE
\* Line 231.
has_images(s) == s.images # <<>>

\* cmd_done up to `await update.message.reply_text` (lines 232, 236).
cmd_done(u) ==
    /\ CanDispatch
    /\ IF ~is_allowed(u)
       THEN /\ Spawn(Task(u, "done", "return", "None"))
            /\ UNCHANGED sessions
       ELSE /\ sessions' = get_session(sessions, u)
            /\ IF ~has_images(View(sessions, u))
               THEN Spawn(Task(u, "done", "return", "NoImages"))
               ELSE Spawn([Task(u, "done", "analyzing", "None") EXCEPT !.ref = Attached])
    /\ UNCHANGED allowed

\* The "analyzing" message was sent, or sending it raised; lines 238-247 and
\* the except clause.
DoneProcess(t) ==
    /\ t.kind = "done" /\ t.pc = "analyzing"
    /\ \/ /\ Resume(t, [t EXCEPT !.pc = "return", !.signal = "Exception"])
          /\ UNCHANGED sessions
       \/ \E reply \in EngineReplies(Deref(sessions, t).images) :
            LET s == Deref(sessions, t)
                r == process_invoices(s.images, reply)
                c == commit(s, r.drafts)
            IN /\ StoredShipments(sessions) - Len(s.shipments) + Len(r.drafts) <= MaxDrafts
               /\ IF ~r.ok
                  THEN /\ Resume(t, [t EXCEPT !.pc = "return",
                                              !.signal = "ExtractionError"])
                       /\ UNCHANGED sessions
                  ELSE /\ sessions' = StoreAfter(t, c.session)
                       /\ Resume(t, [t EXCEPT !.ref = RefAfter(t, c.session),
                                              !.drafts = r.drafts,
                                              !.pc = IF c.ok THEN "cards" ELSE "return",
                                              !.signal = IF c.ok THEN "None"
                                                         ELSE "ExtractionError"])
    /\ UNCHANGED allowed

\* Lines 250-268: the cards and the summary are sent, or a send raised and
\* the except clause reports an extraction error.
DoneCards(t) ==
    /\ t.kind = "done" /\ t.pc = "cards"
    /\ \E ok \in BOOLEAN :
         Resume(t, [t EXCEPT !.pc = "return",
                             !.signal = IF ok THEN "Summary" ELSE "ExtractionError"])
    /\ UNCHANGED <<allowed, sessions>>


\* ---------------------------------------------------------- generate_ticket
\* The literals of lines 74-83, transliterated: the label of the total and the
\* first sentence of the footer.
LabelPaid == "Itogo oplacheno"
LabelToPay == "Itogo k oplate"
FooterCharged == "Summa byla spisana s vashego balansa."
FooterNotCharged == "Spisanie sredstv ne proizvodilos"

\* generate_ticket(data, approved): the fields of the text that vary.
generate_ticket(data, approved) ==
    [shipmentIndex |-> data.shipmentIndex, order |-> data.orderNumber,
     label |-> IF approved THEN LabelPaid ELSE LabelToPay,
     footer |-> IF approved THEN FooterCharged ELSE FooterNotCharged]

\* ----------------------------------------------------------- handle_callback
\* The index a pressed button's callback data carries (0-based): the buttons
\* of the first two cards, and an index below zero.
CallbackIdx == {-1, 0, 1}
CallbackActs == {"approve", "reject", "ticket"}

\* list[idx] of Python as a 1-based position: a negative idx counts from the
\* end; 0 when list[idx] raises IndexError.
PyIndex(idx, len) ==
    IF 0 <= idx /\ idx < len THEN idx + 1
    ELSE IF idx < 0 /\ -len <= idx THEN len + idx + 1
    ELSE 0

\* Lines 343, 350, 357: `if idx < len(session["shipments"])`.
below_len(idx, len) == idx < len

set_approval_toggle(shipments, pos, v) ==
    [shipments EXCEPT ![pos].paymentApproved = ~shipments[pos].paymentApproved]
\* Lines 344, 351.
set_approval(shipments, pos, v) == [shipments EXCEPT ![pos].paymentApproved = v]

\* handle_callback.  Its first await, query.answer(), comes before the handler
\* reads or writes anything, so the handler is taken from there: lines 337-363
\* up to the reply.
handle_callback(u, act, idx) ==
    /\ CanDispatch
    /\ LET store == get_session(sessions, u)
           s == store[u]
           len == Len(s.shipments)
           pos == PyIndex(idx, len)
           task(sig) == [Task(u, "callback", "return", sig)
                            EXCEPT !.act = act, !.idx = idx, !.ref = Attached]
       IN IF ~below_len(idx, len)
          THEN /\ sessions' = store
               /\ Spawn(task("None"))
          ELSE IF pos = 0
          THEN /\ sessions' = store
               /\ Spawn(task("Exception"))
          ELSE IF act = "ticket"
          THEN /\ sessions' = store
               /\ Spawn([task("Ticket") EXCEPT !.tickets =
                            <<generate_ticket(s.shipments[pos],
                                              s.shipments[pos].paymentApproved)>>])
          ELSE /\ sessions' =
                     [store EXCEPT ![u].shipments =
                         set_approval(s.shipments, pos, act = "approve")]
               /\ Spawn(task("ApprovalSet"))
    /\ UNCHANGED allowed

\* ---------------------------------------------------------------- cmd_order
\* int() on the tokens a user types as the shipment number.
IntTokens == {"0", "1", "2"}
int(tok) == CASE tok = "0" -> 0 [] tok = "1" -> 1 [] tok = "2" -> 2

\* context.args of the /order commands tried.
OrderArgs ==
    { <<"1">>, <<"x", "A">>, <<"0", "A">>, <<"1", "A", "B">>, <<"2", "A">> }

RECURSIVE join(_)
\* " ".join(tokens)
join(tokens) ==
    IF tokens = <<>> THEN ""
    ELSE IF Len(tokens) = 1 THEN tokens[1]
    ELSE tokens[1] \o " " \o join(Tail(tokens))

\* Line 384: `if 0 <= idx < len(session["shipments"])`.
in_range(idx, len) == 0 <= idx /\ idx < len

set_order_all(shipments, pos, text) ==
    [i \in 1..Len(shipments) |-> [shipments[i] EXCEPT !.orderNumber = text]]
\* Line 385.
set_order(shipments, pos, text) == [shipments EXCEPT ![pos].orderNumber = text]

\* cmd_order: synchronous up to its reply.
cmd_order(u, args) ==
    /\ CanDispatch
    /\ LET task(sig) == [Task(u, "order", "return", sig) EXCEPT !.args = args] IN
       IF ~is_allowed(u)
       THEN /\ Spawn(task("None"))
            /\ UNCHANGED sessions
       ELSE LET store == get_session(sessions, u)
                s == store[u]
            IN IF Len(args) < 2
               THEN /\ sessions' = store
                    /\ Spawn(task("Usage"))
               ELSE IF args[1] \notin IntTokens
               THEN /\ sessions' = store
                    /\ Spawn(task("BadFormat"))
               ELSE LET idx == int(args[1]) - 1 IN
                    IF in_range(idx, Len(s.shipments))
                    THEN /\ sessions' =
                              [store EXCEPT ![u].shipments =
                                  set_order(s.shipments, idx + 1, join(Tail(args)))]
                         /\ Spawn(task("OrderSet"))
                    ELSE /\ sessions' = store
                         /\ Spawn(task("OutOfRange"))
    /\ UNCHANGED allowed

\* --------------------------------------------------------------- cmd_tickets
\* Lines 407-412: one ticket per shipment, in the order of the list; a
\* reply_text that raises ends the loop after `sent` tickets.
cmd_tickets(u) ==
    /\ CanDispatch
    /\ IF ~is_allowed(u)
       THEN /\ Spawn(Task(u, "tickets", "return", "None"))
            /\ UNCHANGED sessions
       ELSE /\ sessions' = get_session(sessions, u)
            /\ LET sh == View(sessions, u).shipments IN
               IF sh = <<>>
               THEN Spawn(Task(u, "tickets", "return", "NoShipments"))
               ELSE \E sent \in 0..Len(sh) :
                      Spawn([Task(u, "tickets", "return",
                                  IF sent = Len(sh) THEN "Tickets" ELSE "Exception")
                                EXCEPT !.tickets =
                                    [i \in 1..sent |->
                                        generate_ticket(sh[i], sh[i].paymentApproved)]])
    /\ UNCHANGED allowed

\* ------------------------------------------------------------------ return
\* The handler's last await is over: the coroutine returns to the dispatcher.
Return(t) ==
    /\ t.pc = "return"
    /\ tasks' = tasks \ {t}
    /\ UNCHANGED <<allowed, sessions>>

Next ==
    \/ \E u \in Users : cmd_start(u)
    \/ \E u \in Users : cmd_help(u)
    \/ \E u \in Users : cmd_clear(u)
    \/ \E u \in Users, img \in Payloads : handle_photo(u, img)
    \/ \E u \in Users : cmd_done(u)
    \/ \E u \in Users, act \in CallbackActs, idx \in CallbackIdx : handle_callback(u, act, idx)
    \/ \E u \in Users, args \in OrderArgs : cmd_order(u, args)
    \/ \E u \in Users : cmd_tickets(u)
    \/ \E t \in tasks : PhotoGetFile(t)
    \/ \E t \in tasks : PhotoDownload(t)
    \/ \E t \in tasks : DoneProcess(t)
    \/ \E t \in tasks : DoneCards(t)
    \/ \E t \in tasks : Return(t)

Spec == Init /\ [][Next]_vars


\* ================================================================== claims
Returned(t) == t.pc = "return"

\* The store's entry for u: whether there is one, and what it holds.
SessionOf(u) == <<u \in DOMAIN sessions, View(sessions, u)>>

\* C1: a session in phase collecting holds no shipments.
C1_CollectingHasNoShipments ==
    \A u \in DOMAIN sessions :
        sessions[u].phase = "collecting" => sessions[u].shipments = <<>>

\* C2: when a Finalize has ended, either the session is in review with one
\* shipment for every draft the extraction returned, or shipments is what it
\* was before the Finalize started.
C2_FinalizeAllOrNothing ==
    \A t \in tasks :
        t.kind = "done" /\ Returned(t) /\ t.user \in DOMAIN sessions =>
            LET s == sessions[t.user] IN
            \/ s.phase = "review" /\ Len(s.shipments) = Len(t.drafts)
            \/ s.shipments = t.pre.shipments

\* C3: a Finalize that ends with the extraction error leaves the session in
\* phase collecting with the images it held before.
C3_ErrorKeepsCollecting ==
    \A t \in tasks :
        t.kind = "done" /\ Returned(t) /\ t.signal = "ExtractionError" =>
            /\ View(sessions, t.user).phase = "collecting"
            /\ View(sessions, t.user).images = t.pre.images


\* A Finalize that passed its images check and has neither committed nor failed.
InFlight(t) == t.kind = "done" /\ t.pc = "analyzing"

\* The step is the Finalize t itself going on from its await.
OwnStep(t) ==
    /\ t \notin tasks'
    /\ \E t2 \in tasks' \ tasks :
         t2.kind = "done" /\ t2.user = t.user /\ t2.pc \in {"cards", "return"}

\* C4: while a Finalize of a user is between its images check and its commit
\* or failure, no step but its own changes that user's session.
C4_FinalizeSerialized ==
    [][\A t \in tasks :
         InFlight(t) => OwnStep(t) \/ SessionOf(t.user)' = SessionOf(t.user)]_vars

\* A Finalize is in flight on a session in review that holds shipments.
C4_Witness ==
    \E t \in tasks :
        InFlight(t) /\ t.pre.phase = "review" /\ t.pre.shipments # <<>>

\* C5: under a non-empty allow-list the store holds no session of a user who
\* is not on it: no entry point creates, resets or modifies one.
C5_DeniedUserHasNoSession ==
    allowed # {} => \A u \in DOMAIN sessions : u \in allowed

\* A photo was acquired and appended; its acknowledgment is being sent.
PhotoAcked(t) == t.kind = "photo" /\ Returned(t) /\ t.signal = "PhotoAck"

\* C6: a photo that arrives in review leaves the session collecting with that
\* photo alone and no shipments; each photo after it is appended, the session
\* still collecting with no shipments.
C6_PhotoInReviewStartsOver ==
    \A t \in tasks :
        PhotoAcked(t) =>
            LET s == View(sessions, t.user) IN
            /\ t.pre.phase = "review" =>
                   /\ s.phase = "collecting"
                   /\ s.images = <<Base64(t.img)>>
                   /\ s.shipments = <<>>
            /\ t.pre.phase = "collecting" /\ t.pre.shipments = <<>> =>
                   /\ s.phase = "collecting"
                   /\ s.images = t.pre.images \o <<Base64(t.img)>>
                   /\ s.shipments = <<>>

\* A photo arrived in a review that held images and shipments.
C6_Witness ==
    \E t \in tasks :
        /\ PhotoAcked(t)
        /\ t.pre.phase = "review"
        /\ Len(t.pre.images) = 2
        /\ t.pre.shipments # <<>>

\* An update that addresses a shipment, and the 0-based index it carries.
Addresses(t) ==
    \/ t.kind = "callback"
    \/ t.kind = "order" /\ Len(t.args) >= 2 /\ t.args[1] \in IntTokens
IndexOf(t) == IF t.kind = "callback" THEN t.idx ELSE int(t.args[1]) - 1

\* C7: an approve/reject button, a set-order command or a ticket request whose
\* index is outside [0, len(shipments)) leaves shipments unchanged and is not
\* answered as if it had been carried out.
C7_OutOfRangeRejected ==
    \A t \in tasks :
        /\ Addresses(t) /\ Returned(t)
        /\ ~(0 <= IndexOf(t) /\ IndexOf(t) < Len(t.pre.shipments))
        => /\ View(sessions, t.user).shipments = t.pre.shipments
           /\ t.signal \notin {"ApprovalSet", "OrderSet", "Ticket"}

\* C8: a photo that arrives in collecting is appended: the images list is the
\* one before, then the photo, so n photos in a row give n images in order.
C8_PhotosAppendInOrder ==
    \A t \in tasks :
        PhotoAcked(t) /\ t.pre.phase = "collecting" =>
            LET s == View(sessions, t.user) IN
            /\ Len(s.images) = Len(t.pre.images) + 1
            /\ SubSeq(s.images, 1, Len(t.pre.images)) = t.pre.images
            /\ s.images[Len(s.images)] = Base64(t.img)

\* The second of two different photos was appended after the first.
C8_Witness ==
    \E t \in tasks :
        /\ PhotoAcked(t) /\ t.pre.phase = "collecting"
        /\ Len(t.pre.images) = 1
        /\ t.pre.images[1] # Base64(t.img)

\* C9: a session in review holds images, and the extraction is only ever
\* called with a non-empty images list.
C9_ReviewHasImages ==
    /\ \A u \in DOMAIN sessions :
           sessions[u].phase = "review" => sessions[u].images # <<>>
    /\ \A t \in tasks : InFlight(t) => Deref(sessions, t).images # <<>>

\* A Finalize committed on a session that holds images.
C9_Witness ==
    \E t \in tasks :
        /\ t.kind = "done" /\ t.pc = "cards"
        /\ sessions[t.user].phase = "review"
        /\ t.pre.phase = "collecting"

\* A reset that was carried out: /clear, or /start of an admitted user.
ResetDone(t) ==
    /\ Returned(t)
    /\ \/ t.kind = "clear"
       \/ t.kind = "start" /\ t.signal = "Welcome"

\* C10: after a reset the user's session is collecting, with no images and no
\* shipments, whatever it held before.
C10_ResetRestoresInitial ==
    \A t \in tasks :
        ResetDone(t) =>
            /\ t.user \in DOMAIN sessions
            /\ sessions[t.user].phase = "collecting"
            /\ sessions[t.user].images = <<>>
            /\ sessions[t.user].shipments = <<>>

\* A reset of a session that was in review with shipments.
C10_Witness ==
    \E t \in tasks :
        ResetDone(t) /\ t.pre.phase = "review" /\ t.pre.shipments # <<>>

\* A Finalize that committed: its cards are being sent, or were sent.
Committed(t) ==
    /\ t.kind = "done"
    /\ \/ t.pc = "cards"
       \/ Returned(t) /\ t.signal = "Summary"

\* C11: a Finalize that succeeded leaves the session in review with one
\* shipment per draft the extraction returned, in the returned order, each
\* with an empty order number and the payment approved, whatever the session
\* held before; an answer that is one object, not a list, gives one shipment.
C11_FinalizeBuildsShipments ==
    /\ \A t \in tasks :
         Committed(t) =>
             LET s == View(sessions, t.user) IN
             /\ s.phase = "review"
             /\ Len(t.pre.images) >= 1
             /\ Len(s.shipments) = Len(t.drafts)
             /\ \A i \in 1..Len(t.drafts) :
                  /\ s.shipments[i].shipmentIndex = t.drafts[i].shipmentIndex
                  /\ s.shipments[i].pages = t.drafts[i].pages
                  /\ s.shipments[i].orderNumber = ""
                  /\ s.shipments[i].paymentApproved = TRUE
    /\ \A t \in tasks :
         InFlight(t) =>
             \A reply \in EngineReplies(Deref(sessions, t).images) :
                 LET r == process_invoices(Deref(sessions, t).images, reply) IN
                 ~reply.raised /\ json_loads_ok(strip_fences(reply))
                     /\ reply.value.type = "object" =>
                         /\ r.ok
                         /\ Len(commit(Deref(sessions, t), r.drafts).session.shipments) = 1

\* A Finalize committed two drafts over two shipments the operator had edited.
C11_Witness ==
    \E t \in tasks :
        /\ Committed(t)
        /\ Len(t.drafts) = 2
        /\ Len(t.pre.shipments) = 2
        /\ t.pre.shipments[1].paymentApproved = FALSE
        /\ t.pre.shipments[2].orderNumber # ""

\* A /order whose shipment number is in 1..len(shipments), with a text.
OrderInBounds(t) ==
    /\ t.kind = "order" /\ Returned(t)
    /\ Len(t.args) >= 2 /\ t.args[1] \in IntTokens
    /\ 1 <= int(t.args[1]) /\ int(t.args[1]) <= Len(t.pre.shipments)

\* An approve or reject button whose index is in 0..len(shipments)-1.
ApprovalInBounds(t) ==
    /\ t.kind = "callback" /\ Returned(t)
    /\ t.act \in {"approve", "reject"}
    /\ 0 <= t.idx /\ t.idx < Len(t.pre.shipments)

\* The text of the /order commands tried: the tokens after the number, one
\* space between two of them.
SpacedText(args) ==
    IF Len(args) = 2 THEN args[2] ELSE args[2] \o " " \o args[3]

\* C12: /order i text with i in bounds sets the order number of shipment i to
\* the tokens joined by single spaces and changes nothing else: phase, images,
\* the other shipments and the other fields of shipment i stay; an approve or
\* reject button in bounds changes only that shipment's paymentApproved.
C12_EditsChangeOneField ==
    /\ \A t \in tasks :
         OrderInBounds(t) =>
             LET s == View(sessions, t.user)
                 i == int(t.args[1])
             IN /\ t.signal = "OrderSet"
                /\ s.phase = t.pre.phase
                /\ s.images = t.pre.images
                /\ Len(s.shipments) = Len(t.pre.shipments)
                /\ \A j \in 1..Len(s.shipments) :
                     s.shipments[j] =
                         IF j = i
                         THEN [t.pre.shipments[j] EXCEPT !.orderNumber = SpacedText(t.args)]
                         ELSE t.pre.shipments[j]
    /\ \A t \in tasks :
         ApprovalInBounds(t) =>
             LET s == View(sessions, t.user) IN
             /\ t.signal = "ApprovalSet"
             /\ s.phase = t.pre.phase
             /\ s.images = t.pre.images
             /\ Len(s.shipments) = Len(t.pre.shipments)
             /\ \A j \in 1..Len(s.shipments) :
                  s.shipments[j] =
                      IF j = t.idx + 1
                      THEN [t.pre.shipments[j] EXCEPT !.paymentApproved = (t.act = "approve")]
                      ELSE t.pre.shipments[j]

\* /order 1 A B on two shipments: the first one rejected, the second one with
\* an order number of its own.
C12_Witness ==
    \E t \in tasks :
        /\ OrderInBounds(t)
        /\ t.args = <<"1", "A", "B">>
        /\ Len(t.pre.shipments) = 2
        /\ t.pre.shipments[1].paymentApproved = FALSE
        /\ t.pre.shipments[2].orderNumber = "A"
        /\ View(sessions, t.user).shipments[1].orderNumber = "A B"

\* The button repeats the value the shipment already has: the same button was
\* pressed before, or the value is the one the shipment was created with.
RepeatsApproval(t) ==
    /\ ApprovalInBounds(t)
    /\ t.pre.shipments[t.idx + 1].paymentApproved = (t.act = "approve")

\* C13: setting a shipment's approval to the value it was set to before
\* changes nothing: the session after the second press is the session after
\* the first, and the assignment applied twice is the assignment applied once.
C13_SetApprovalIdempotent ==
    /\ \A t \in tasks :
         RepeatsApproval(t) => View(sessions, t.user) = t.pre
    /\ \A u \in DOMAIN sessions :
         \A pos \in 1..Len(sessions[u].shipments), v \in BOOLEAN :
             set_approval(set_approval(sessions[u].shipments, pos, v), pos, v)
                 = set_approval(sessions[u].shipments, pos, v)

\* The reject button of the second of two shipments was pressed again.
C13_Witness ==
    \E t \in tasks :
        /\ RepeatsApproval(t)
        /\ t.act = "reject"
        /\ t.idx = 1
        /\ t.pre.shipments[1].paymentApproved = TRUE

\* A /done of an admitted user that found no images in the session.
DoneOnEmpty(t) == t.kind = "done" /\ is_allowed(t.user) /\ t.pre.images = <<>>

\* C14: a Finalize on a session without images is answered with the no-images
\* error; it never reaches the extraction call, and the session's phase,
\* images and shipments are what they were.
C14_EmptyFinalizeIsNoOp ==
    \A t \in tasks :
        DoneOnEmpty(t) =>
            /\ Returned(t)
            /\ t.signal = "NoImages"
            /\ t.drafts = <<>>
            /\ View(sessions, t.user) = t.pre

\* /done on a session without images was answered.
C14_Witness ==
    \E t \in tasks :
        DoneOnEmpty(t) /\ Returned(t) /\ t.signal = "NoImages" /\ allowed # {}

\* The step is a segment of a handler that runs for user a: the handler was
\* dispatched, or went on from an await.
StepOf(a) == \E t \in tasks' \ tasks : t.user = a

\* C15: no step of a handler that runs for one user changes the phase, the
\* images or the shipments of another user's session.
C15_SessionsIndependent ==
    [][\A a \in Users :
         StepOf(a) =>
             \A b \in Users \ {a} : View(sessions, b)' = View(sessions, b)]_vars

\* A Finalize of one user committed while another user's session is in review.
C15_Witness ==
    \E t \in tasks :
        /\ Committed(t)
        /\ \E b \in DOMAIN sessions \ {t.user} :
             sessions[b].phase = "review" /\ sessions[b].shipments # <<>>

\* C16: while the extraction call of one user's Finalize is outstanding, the
\* updates of every other user are still taken and handled: another user's
\* reset can be dispatched.
C16_OtherUsersNotBlocked ==
    \A t \in tasks :
        InFlight(t) => \A b \in Users \ {t.user} : ENABLED cmd_clear(b)

\* What a ticket says about the payment.
ShowsPaid(tk) == tk.label = LabelPaid /\ tk.footer = FooterCharged
ShowsToPay(tk) == tk.label = LabelToPay /\ tk.footer = FooterNotCharged

\* The ticket tk is the one of shipment sh, rendered with the value sh holds.
TicketMatches(tk, sh) ==
    /\ tk.shipmentIndex = sh.shipmentIndex
    /\ IF sh.paymentApproved THEN ShowsPaid(tk) ELSE ShowsToPay(tk)

\* A ticket button whose index is in 0..len(shipments)-1.
TicketInBounds(t) ==
    /\ t.kind = "callback" /\ Returned(t) /\ t.act = "ticket"
    /\ 0 <= t.idx /\ t.idx < Len(t.pre.shipments)

\* The tickets a handler sent are rendered from the values the shipments hold:
\* the button's ticket from shipment idx, the tickets of /tickets from the
\* shipments in index order, all of them unless a send raised.
TicketsShowCurrentValue ==
    /\ \A t \in tasks :
         TicketInBounds(t) =>
             /\ Len(t.tickets) = 1
             /\ TicketMatches(t.tickets[1], View(sessions, t.user).shipments[t.idx + 1])
    /\ \A t \in tasks :
         t.kind = "tickets" =>
             LET sh == View(sessions, t.user).shipments IN
             /\ Len(t.tickets) <= Len(sh)
             /\ t.signal = "Tickets" => Len(t.tickets) = Len(sh)
             /\ \A i \in 1..Len(t.tickets) : TicketMatches(t.tickets[i], sh[i])

\* The step changes the paymentApproved of user u's shipment j, which is in
\* the list before and after the step.
ApprovalChanges(u, j) ==
    /\ j <= Len(View(sessions, u).shipments)
    /\ j <= Len(View(sessions, u).shipments')
    /\ View(sessions, u).shipments'[j].paymentApproved
           # View(sessions, u).shipments[j].paymentApproved

\* The step is an approve or reject button of user u with index j - 1, or a
\* Finalize of user u.
SetsApprovalOf(u, j) ==
    \E t \in tasks' \ tasks :
        /\ t.user = u
        /\ \/ t.kind = "done"
           \/ t.kind = "callback" /\ t.act \in {"approve", "reject"} /\ t.idx = j - 1

\* C17: a ticket of shipment idx, from its button or from /tickets, shows the
\* shipment's paymentApproved (paid and charged when it is True, to pay and
\* not charged when it is False), /tickets sends one ticket per shipment in
\* index order, and the value shown is the one the last approve or reject
\* button with index idx gave the shipment since the Finalize that built it:
\* no other step changes it.
C17_TicketShowsLastApproval ==
    [][/\ TicketsShowCurrentValue'
       /\ \A u \in Users, j \in 1..MaxDrafts :
            ApprovalChanges(u, j) => SetsApprovalOf(u, j)]_vars

\* A photo whose get_file or download raised.
PhotoFailed(t) == t.kind = "photo" /\ Returned(t) /\ t.signal = "Exception"

\* C18: a photo that could not be acquired leaves the session's phase, images
\* and shipments as the photo found them, also when it arrived in review.
C18_FailedPhotoChangesNothing ==
    \A t \in tasks :
        PhotoFailed(t) => View(sessions, t.user) = t.pre

\* C19: in review the shipments are the extraction's answer on the images the
\* session holds: the pages every shipment was extracted from are exactly the
\* session's images, none added since.
C19_ReviewMatchesImages ==
    \A u \in DOMAIN sessions :
        sessions[u].phase = "review" =>
            \A i \in 1..Len(sessions[u].shipments) :
                sessions[u].shipments[i].pages = sessions[u].images

\* A Finalize committed shipments extracted from two different images.
C19_Witness ==
    \E t \in tasks :
        /\ Committed(t)
        /\ t.drafts # <<>>
        /\ Len(sessions[t.user].images) = 2
        /\ sessions[t.user].images[1] # sessions[t.user].images[2]
        /\ sessions[t.user].shipments[1].pages = sessions[t.user].images

\* A handler that holds `session` and is suspended before or after its write.
HoldsSession(t) ==
    \/ t.kind = "photo" /\ t.pc \in {"get_file", "download"}
    \/ PhotoAcked(t)
    \/ InFlight(t)
    \/ Committed(t)

\* C20: the session a handler writes to is the one the store holds for its
\* user, no reset having replaced it while the handler was suspended: when the
\* acknowledgment of a photo is shown the stored session ends with that photo,
\* and when the cards are shown the stored session is in review with the
\* shipments of the cards.
C20_WritesLandInStore ==
    \A t \in tasks :
        /\ HoldsSession(t) => t.ref.attached /\ t.user \in DOMAIN sessions
        /\ PhotoAcked(t) =>
               LET images == View(sessions, t.user).images IN
               images # <<>> /\ images[Len(images)] = Base64(t.img)
        /\ Committed(t) =>
               /\ View(sessions, t.user).phase = "review"
               /\ View(sessions, t.user).shipments =
                      [i \in 1..Len(t.drafts) |-> Shipment(t.drafts[i])]

\* The acknowledgment of a second photo is shown, the first one of the user's
\* session having been acknowledged before.
C20_Witness ==
    \E t \in tasks :
        /\ PhotoAcked(t)
        /\ t.ref.attached
        /\ Len(sessions[t.user].images) = 2
        /\ sessions[t.user].images[2] = Base64(t.img)

====
